---- MODULE Spec2Model ----
(***************************************************************************)
(* Lucene query analysis, repair and rewriting (apps/utils/lucene.py) and  *)
(* the collector-checker Report (collector_checker/base.py).               *)
(*                                                                         *)
(* A query string (keyword) is a sequence of characters, each character a  *)
(* one-element TLA+ string.  Positions stored in tokens, nodes and fields  *)
(* are Python's 0-based offsets; kw[p + 1] is the character at offset p.   *)
(* The two Chinese curly quotes U+201C and U+201D are written LDQUO and    *)
(* RDQUO.  The characters ^ ~ / \ ' , (boost, fuzzy, regex, escapes) are   *)
(* outside the modelled alphabet.                                          *)
(***************************************************************************)
EXTENDS Integers, Sequences, FiniteSets, TLC

LDQUO == "ldquo"
RDQUO == "rdquo"
DQUOTE == "\""

Max(a, b) == IF a > b THEN a ELSE b
Min(a, b) == IF a < b THEN a ELSE b

\* Python slice kw[lo:hi] with 0 <= lo, hi offsets (clamped like Python).
Slice(kw, lo, hi) == SubSeq(kw, lo + 1, Min(hi, Len(kw)))

\* Python kw[lo:]
SliceFrom(kw, lo) == SubSeq(kw, lo + 1, Len(kw))

\* kw[:p] + kw[p + n:]
RemoveAt(kw, p, n) == Slice(kw, 0, p) \o SliceFrom(kw, p + n)

\* str.strip() for the blank of the alphabet
RECURSIVE LStrip(_)
LStrip(s) == IF s # <<>> /\ Head(s) = " " THEN LStrip(Tail(s)) ELSE s

RECURSIVE RStrip(_)
RStrip(s) == IF s # <<>> /\ s[Len(s)] = " " THEN RStrip(SubSeq(s, 1, Len(s) - 1)) ELSE s

Strip(s) == RStrip(LStrip(s))

\* str.find(sub, start): 0-based offset of the first occurrence at or after
\* offset start, -1 when there is none.
RECURSIVE FindFrom(_, _, _)
FindFrom(kw, sub, start) ==
    IF start + Len(sub) > Len(kw) THEN -1
    ELSE IF SubSeq(kw, start + 1, start + Len(sub)) = sub THEN start
    ELSE FindFrom(kw, sub, start + 1)

Find(kw, sub) == FindFrom(kw, sub, 0)

\* offset of the last occurrence of sub that starts before offset limit, or -1
RECURSIVE RFindBefore(_, _, _)
RFindBefore(kw, sub, limit) ==
    IF limit <= 0 THEN -1
    ELSE IF limit - 1 + Len(sub) <= Len(kw)
            /\ SubSeq(kw, limit, limit - 1 + Len(sub)) = sub THEN limit - 1
    ELSE RFindBefore(kw, sub, limit - 1)

(***************************************************************************)
(* luqum lexer (parser.parse(keyword, lexer=lexer)): token classes         *)
(***************************************************************************)
Blank == {" "}

\* TERM_RE: characters that cannot start a term / cannot continue one
TermStartExcluded ==
    Blank \cup {":", "^", "~", "(", ")", "{", "}", "[", "]", "/", DQUOTE, "'", "+", "-", "\\"}

TermFollowExcluded ==
    Blank \cup {":", "^", "\\", "~", "(", ")", "{", "}", "[", "]"}

\* reserved = {'AND': 'AND_OP', 'OR': 'OR_OP', 'NOT': 'NOT', 'TO': 'TO'}
Reserved(text) ==
    CASE text = <<"A", "N", "D">> -> "AND_OP"
      [] text = <<"O", "R">> -> "OR_OP"
      [] text = <<"N", "O", "T">> -> "NOT"
      [] text = <<"T", "O">> -> "TO"
      [] OTHER -> "TERM"

SimpleToken(c) ==
    CASE c = "+" -> "PLUS"
      [] c = "-" -> "MINUS"
      [] c = ":" -> "COLUMN"
      [] c = "(" -> "LPAREN"
      [] c = ")" -> "RPAREN"
      [] c \in {"[", "{"} -> "LBRACKET"
      [] c \in {"]", "}"} -> "RBRACKET"
      [] OTHER -> "ILLEGAL"

\* 1-based index one past the run of term characters starting at i
RECURSIVE TermEnd(_, _)
TermEnd(kw, i) ==
    IF i <= Len(kw) /\ kw[i] \notin TermFollowExcluded THEN TermEnd(kw, i + 1) ELSE i

Tok(type, pos, text) == [type |-> type, pos |-> pos, text |-> text]

\* The token stream the parser pulls from the lexer: it ends with END, or with
\* ILLEGAL at the first character no lexer rule matches (t_error raises there).
RECURSIVE Lex(_, _)
Lex(kw, i) ==
    IF i > Len(kw) THEN <<Tok("END", Len(kw), <<>>)>>
    ELSE IF kw[i] \in Blank THEN Lex(kw, i + 1)
    ELSE IF kw[i] \notin TermStartExcluded THEN
        LET j == TermEnd(kw, i + 1)
            text == SubSeq(kw, i, j - 1)
        IN  <<Tok(Reserved(text), i - 1, text)>> \o Lex(kw, j)
    ELSE IF kw[i] = DQUOTE THEN
        LET close == FindFrom(kw, <<DQUOTE>>, i)
        IN  IF close = -1 THEN <<Tok("ILLEGAL", i - 1, <<kw[i]>>)>>
            ELSE <<Tok("PHRASE", i - 1, SubSeq(kw, i, close + 1))>> \o Lex(kw, close + 2)
    ELSE IF SimpleToken(kw[i]) = "ILLEGAL" THEN <<Tok("ILLEGAL", i - 1, <<kw[i]>>)>>
    ELSE <<Tok(SimpleToken(kw[i]), i - 1, <<kw[i]>>)>> \o Lex(kw, i + 1)

(***************************************************************************)
(* luqum parser: the syntax tree and the three ways parser.parse ends      *)
(***************************************************************************)
Node(type, pos, size, name, value, kids) ==
    [type |-> type, pos |-> pos, size |-> size, name |-> name, value |-> value, kids |-> kids]

NoNode == Node("None", 0, 0, <<>>, <<>>, <<>>)

NodeEnd(n) == n.pos + n.size

OperandStart == {"PLUS", "MINUS", "NOT", "LPAREN", "LBRACKET", "TERM", "PHRASE", "TO"}

UnaryType(tokType) ==
    CASE tokType = "PLUS" -> "Plus"
      [] tokType = "MINUS" -> "Prohibit"
      [] OTHER -> "Not"

OperationType(op) ==
    CASE op = "AND_OP" -> "AndOperation"
      [] op = "OR_OP" -> "OrOperation"
      [] OTHER -> "UnknownOperation"

\* create_operation: operands of the same class are merged into one n-ary node
CreateOperation(cls, a, b) ==
    Node(cls, a.pos, NodeEnd(b) - a.pos, <<>>, <<>>,
         (IF a.type = cls THEN a.kids ELSE <<a>>) \o (IF b.type = cls THEN b.kids ELSE <<b>>))

\* The parser's shift/reduce choice after "expression op expression" with
\* lookahead x (precedence table: OR_OP < AND_OP < the operand tokens; the
\* implicit rule and NOT carry no precedence).
ReduceOn(ctx, x) ==
    CASE ctx = "OR_OP" -> x \in {"OR_OP", "NOT"}
      [] ctx = "AND_OP" -> x \in {"OR_OP", "AND_OP", "NOT"}
      [] OTHER -> FALSE

Good(node, next) == [ok |-> TRUE, node |-> node, next |-> next]
\* the parser stops at token number at: its first token that continues no query
Bad(at) == [ok |-> FALSE, node |-> NoNode, next |-> at]

RECURSIVE ParseUnary(_, _)
RECURSIVE ParseExpr(_, _, _)
RECURSIVE ParseRest(_, _, _, _)

\* unary_expression, starting at token number i
ParseUnary(t, i) ==
    LET tok == t[i] IN
    CASE tok.type \in {"PLUS", "MINUS", "NOT"} ->
            LET r == ParseUnary(t, i + 1) IN
            IF r.ok
            THEN Good(Node(UnaryType(tok.type), tok.pos, NodeEnd(r.node) - tok.pos,
                           <<>>, <<>>, <<r.node>>), r.next)
            ELSE r
      [] tok.type = "LPAREN" ->
            LET r == ParseExpr(t, i + 1, "TOP") IN
            IF ~r.ok THEN r
            ELSE IF t[r.next].type # "RPAREN" THEN Bad(r.next)
            ELSE Good(Node("Group", tok.pos, t[r.next].pos + 1 - tok.pos,
                           <<>>, <<>>, <<r.node>>), r.next + 1)
      [] tok.type = "LBRACKET" ->
            IF t[i + 1].type \notin {"TERM", "PHRASE"} THEN Bad(i + 1)
            ELSE IF t[i + 2].type # "TO" THEN Bad(i + 2)
            ELSE IF t[i + 3].type \notin {"TERM", "PHRASE"} THEN Bad(i + 3)
            ELSE IF t[i + 4].type # "RBRACKET" THEN Bad(i + 4)
            ELSE Good(Node("Range", tok.pos, t[i + 4].pos + 1 - tok.pos,
                           <<tok.text[1], t[i + 4].text[1]>>, <<>>,
                           << Node(IF t[i + 1].type = "TERM" THEN "Word" ELSE "Phrase",
                                   t[i + 1].pos, Len(t[i + 1].text), <<>>, t[i + 1].text, <<>>),
                              Node(IF t[i + 3].type = "TERM" THEN "Word" ELSE "Phrase",
                                   t[i + 3].pos, Len(t[i + 3].text), <<>>, t[i + 3].text, <<>>) >>),
                      i + 5)
      [] tok.type = "TERM" ->
            IF t[i + 1].type = "COLUMN" THEN
                LET r == ParseUnary(t, i + 2) IN
                IF ~r.ok THEN r
                ELSE Good(Node("SearchField", tok.pos, NodeEnd(r.node) - tok.pos, tok.text, <<>>,
                               \* group_to_fieldgroup
                               << IF r.node.type = "Group"
                                  THEN [r.node EXCEPT !.type = "FieldGroup"]
                                  ELSE r.node >>),
                          r.next)
            ELSE Good(Node("Word", tok.pos, Len(tok.text), <<>>, tok.text, <<>>), i + 1)
      [] tok.type = "PHRASE" ->
            Good(Node("Phrase", tok.pos, Len(tok.text), <<>>, tok.text, <<>>), i + 1)
      [] tok.type = "TO" ->
            Good(Node("Word", tok.pos, Len(tok.text), <<>>, tok.text, <<>>), i + 1)
      [] OTHER -> Bad(i)

\* expression, starting at token number i, as the right operand of ctx
ParseExpr(t, i, ctx) ==
    LET r == ParseUnary(t, i) IN
    IF r.ok THEN ParseRest(t, r.node, r.next, ctx) ELSE r

\* continue an expression whose left part lhs ends before token number j
ParseRest(t, lhs, j, ctx) ==
    LET x == t[j].type IN
    IF x \notin OperandStart \cup {"AND_OP", "OR_OP"} THEN Good(lhs, j)
    ELSE IF ReduceOn(ctx, x) THEN Good(lhs, j)
    ELSE LET op == IF x \in {"AND_OP", "OR_OP"} THEN x ELSE "IMPLICIT"
             r == ParseExpr(t, IF op = "IMPLICIT" THEN j ELSE j + 1, op)
         IN  IF r.ok
             THEN ParseRest(t, CreateOperation(OperationType(op), lhs, r.node), r.next, ctx)
             ELSE r

\* parser.parse(keyword, lexer=lexer): the tree, or the exception it raises.
\*   "IllegalCharacterError": Illegal character '<tok>' at position <pos>
\*   "ParseSyntaxError":      ... unexpected  '<tok>' at position <pos>
\*   "UnexpectedEnd":         the ParseSyntaxError "... unexpected end of
\*                            expression (maybe due to unmatched parenthesis)
\*                            at the end!"
Parse(kw) ==
    LET t == Lex(kw, 1)
        r == ParseExpr(t, 1, "TOP")
        bad == t[r.next]
    IN  IF r.ok /\ bad.type = "END"
        THEN [error |-> "none", tree |-> r.node, tok |-> <<>>, pos |-> 0]
        ELSE [error |-> CASE bad.type = "END" -> "UnexpectedEnd"
                          [] bad.type = "ILLEGAL" -> "IllegalCharacterError"
                          [] OTHER -> "ParseSyntaxError",
              tree |-> NoNode, tok |-> bad.text, pos |-> bad.pos]

\* str(node) of a freshly parsed node: the text the node was parsed from
SourceText(kw, node) == Slice(kw, node.pos, NodeEnd(node))

(***************************************************************************)
(* apps.constants                                                          *)
(***************************************************************************)
FULL_TEXT_SEARCH_FIELD_NAME == <<"*">>
DEFAULT_FIELD_OPERATOR == <<"~", "=">>
FIELD_GROUP_OPERATOR == <<"(", ")">>
NOT_OPERATOR == <<"N", "O", "T">>
PLUS_OPERATOR == <<"+">>
PROHIBIT_OPERATOR == <<"-">>
MAX_RESOLVE_TIMES == 10
\* BRACKET_DICT: opening bracket -> closing bracket
BRACKET_DICT == [c \in {"(", "[", "{"} |-> CASE c = "(" -> ")" [] c = "[" -> "]" [] OTHER -> "}"]

\* re.search(WORD_RANGE_OPERATORS, value) with the pattern >=|<=|>|< :
\* the matched operator, <<>> when nothing matches
RECURSIVE WordRangeOperator(_)
WordRangeOperator(value) ==
    IF value = <<>> THEN <<>>
    ELSE IF Head(value) \in {"<", ">"}
         THEN IF Len(value) >= 2 /\ value[2] = "=" THEN <<value[1], "=">> ELSE <<value[1]>>
    ELSE WordRangeOperator(Tail(value))

\* value.split(operator)[-1]
AfterLast(value, operator) ==
    LET p == RFindBefore(value, operator, Len(value))
    IN  IF p = -1 THEN value ELSE SliceFrom(value, p + Len(operator))

(***************************************************************************)
(* LuceneParser: the field extractor                                       *)
(***************************************************************************)
LuceneField(pos, name, type, operator, value) ==
    [pos |-> pos, name |-> name, type |-> type, operator |-> operator, value |-> value]

\* What a parsing_* method hands back: one field, a list of fields, or an
\* exception ("UnknownLuceneOperatorException", "AttributeError").
One(f) == [raised |-> "none", isList |-> FALSE, fields |-> <<f>>]
Many(fs) == [raised |-> "none", isList |-> TRUE, fields |-> fs]
Raise(e) == [raised |-> e, isList |-> FALSE, fields |-> <<>>]

parsing_word(node) ==
    LET operator == WordRangeOperator(node.value)
    IN  IF operator # <<>>
        THEN One(LuceneField(node.pos, FULL_TEXT_SEARCH_FIELD_NAME, "Word", operator,
                             AfterLast(node.value, operator)))
        ELSE One(LuceneField(node.pos, FULL_TEXT_SEARCH_FIELD_NAME, "Word", <<"~", "=">>,
                             node.value))

parsing_phrase(node) ==
    One(LuceneField(node.pos, FULL_TEXT_SEARCH_FIELD_NAME, "Phrase", <<"=">>, node.value))

parsing_fieldgroup(kw, node) ==
    One(LuceneField(node.pos, <<>>, "FieldGroup", FIELD_GROUP_OPERATOR,
                    <<"(">> \o SourceText(kw, node.kids[1]) \o <<")">>))

\* LOW_CHAR[node.include_low] + HIGH_CHAR[node.include_high]
parsing_range(kw, node) ==
    One(LuceneField(node.pos, <<>>, "Range", node.name, SourceText(kw, node)))

parsing_unknownoperation(node) == Raise("UnknownLuceneOperatorException")

RECURSIVE GetMethod(_, _)
RECURSIVE ParsingOperands(_, _, _)

\* parsing_group / parsing_oroperation / parsing_andoperation: the loop over
\* the children, from child number k on
ParsingOperands(kw, kids, k) ==
    IF k > Len(kids) THEN Many(<<>>)
    ELSE LET r == GetMethod(kw, kids[k]) IN
         IF r.raised # "none" THEN r
         ELSE LET rest == ParsingOperands(kw, kids, k + 1) IN
              IF rest.raised # "none" THEN rest ELSE Many(r.fields \o rest.fields)

parsing_searchfield(kw, node) ==
    LET new_field == GetMethod(kw, node.kids[1]) IN
    IF new_field.raised # "none" THEN new_field
    ELSE IF new_field.isList THEN Raise("AttributeError")
    ELSE One(LuceneField(node.pos, node.name, new_field.fields[1].type,
                         new_field.fields[1].operator, new_field.fields[1].value))

\* parsing_not / parsing_plus / parsing_prohibit
ParsingUnaryOperator(kw, node, operator) ==
    LET a == GetMethod(kw, node.kids[1]) IN
    IF a.raised # "none" THEN a
    ELSE IF a.isList THEN Raise("AttributeError")
    ELSE One(LuceneField(node.pos, FULL_TEXT_SEARCH_FIELD_NAME, node.type, operator,
                         a.fields[1].value))

parsing_not(kw, node) == ParsingUnaryOperator(kw, node, NOT_OPERATOR)
parsing_plus(kw, node) == ParsingUnaryOperator(kw, node, PLUS_OPERATOR)
parsing_prohibit(kw, node) == ParsingUnaryOperator(kw, node, PROHIBIT_OPERATOR)

\* _get_method: dispatch on the node's class name
GetMethod(kw, node) ==
    CASE node.type = "Word" -> parsing_word(node)
      [] node.type = "Phrase" -> parsing_phrase(node)
      [] node.type = "SearchField" -> parsing_searchfield(kw, node)
      [] node.type = "FieldGroup" -> parsing_fieldgroup(kw, node)
      [] node.type = "Range" -> parsing_range(kw, node)
      [] node.type = "Not" -> parsing_not(kw, node)
      [] node.type = "Plus" -> parsing_plus(kw, node)
      [] node.type = "Prohibit" -> parsing_prohibit(kw, node)
      [] node.type = "UnknownOperation" -> parsing_unknownoperation(node)
      [] OTHER -> ParsingOperands(kw, node.kids, 1)

\* str(number)
RECURSIVE Decimal(_)
Decimal(n) ==
    LET d == <<"0", "1", "2", "3", "4", "5", "6", "7", "8", "9">>
    IN  IF n < 10 THEN <<d[n + 1]>> ELSE Decimal(n \div 10) \o <<d[(n % 10) + 1]>>

\* f"{name}({number})"
NumberedName(name, number) == name \o <<"(">> \o Decimal(number) \o <<")">>

\* Counter([field.name for field in fields]): the names in first-seen order,
\* and the count of one name
RECURSIVE CounterKeys(_, _)
CounterKeys(fields, seen) ==
    IF fields = <<>> THEN seen
    ELSE CounterKeys(Tail(fields),
                     IF \E k \in 1..Len(seen) : seen[k] = Head(fields).name
                     THEN seen ELSE Append(seen, Head(fields).name))

CounterCount(fields, name) == Cardinality({k \in 1..Len(fields) : fields[k].name = name})

\* the same loop without number += 1
RECURSIVE NumberFieldsNoIncrement(_, _, _, _)
NumberFieldsNoIncrement(fields, name, k, number) ==
    IF k > Len(fields) THEN fields
    ELSE IF fields[k].name = name
         THEN NumberFieldsNoIncrement([fields EXCEPT ![k].name = NumberedName(name, number)],
                                      name, k + 1, number)
    ELSE NumberFieldsNoIncrement(fields, name, k + 1, number)

\* the inner loop of parsing(): number the fields called name, from field k on
RECURSIVE NumberFields(_, _, _, _)
NumberFields(fields, name, k, number) ==
    IF k > Len(fields) THEN fields
    ELSE IF fields[k].name = name
         THEN NumberFields([fields EXCEPT ![k].name = NumberedName(name, number)],
                           name, k + 1, number + 1)
    ELSE NumberFields(fields, name, k + 1, number)

\* the outer loop of parsing(): for name, cnt in names.items()
RECURSIVE RenameDuplicates(_, _, _, _)
RenameDuplicates(fields, counted, keys, k) ==
    IF k > Len(keys) THEN fields
    ELSE RenameDuplicates(IF CounterCount(counted, keys[k]) > 1
                          THEN NumberFields(fields, keys[k], 1, 1)
                          ELSE fields,
                          counted, keys, k + 1)

\* LuceneParser(keyword).parsing(): the exception raised, or the field list
Parsing(kw) ==
    LET p == Parse(kw) IN
    IF p.error # "none" THEN Raise(p.error)
    ELSE LET fields == GetMethod(kw, p.tree) IN
         IF fields.raised # "none" THEN fields
         ELSE IF fields.isList
              THEN Many(RenameDuplicates(fields.fields, fields.fields,
                                         CounterKeys(fields.fields, <<>>), 1))
         ELSE Many(fields.fields)

(***************************************************************************)
(* The inspectors.  Each takes the keyword it was constructed with and     *)
(* hands back its keyword and result after inspect(), or the exception     *)
(* that inspect() lets escape.                                             *)
(***************************************************************************)
\* syntax_error_message of each inspector class
MSG_CHINESE == "ChinesePunctuation"
MSG_RANGE == "IllegalRangeSyntax"
MSG_CHARACTER == "IllegalCharacter"
MSG_BRACKET == "IllegalBracket"
MSG_COLON == "IllegalColon"
MSG_UNKNOWN_OPERATOR == "UnknownOperator"
MSG_DEFAULT == "UnknownException"

\* BaseInspector.__init__ / get_result with nothing flagged
Legal(kw) == [keyword |-> kw, is_legal |-> TRUE, message |-> "", raised |-> "none"]
\* set_illegal() after the keyword became kw
Illegal(kw, msg) == [keyword |-> kw, is_legal |-> FALSE, message |-> msg, raised |-> "none"]
Raised(kw, e) == [keyword |-> kw, is_legal |-> TRUE, message |-> "", raised |-> e]

\* replace_unexpected_character: self.keyword[pos] = char on a str; item
\* assignment on a str raises TypeError and leaves the keyword as it was
replace_unexpected_character(kw, pos, char) == Raised(kw, "TypeError")

\* p.finditer(keyword) for (LDQUO .*? RDQUO): the [start, end) offsets
RECURSIVE ChineseMatches(_, _)
ChineseMatches(kw, from) ==
    LET start == FindFrom(kw, <<LDQUO>>, from)
        close == IF start = -1 THEN -1 ELSE FindFrom(kw, <<RDQUO>>, start + 1)
    IN  IF close = -1 THEN <<>>
        ELSE <<(<<start, close + 1>>)>> \o ChineseMatches(kw, close + 1)

ChinesePunctuationInspector(kw) ==
    LET match_groups == ChineseMatches(kw, 0) IN
    IF match_groups = <<>> THEN Legal(kw)
    \* the first replacement of the loop raises
    ELSE replace_unexpected_character(kw, match_groups[1][1], DQUOTE)

\* remove_unexpected_character(match)
remove_unexpected_character(kw, tok, position) == RemoveAt(kw, position, Len(tok))

IllegalCharacterInspector(kw) ==
    LET p == Parse(kw) IN
    IF p.error \in {"IllegalCharacterError", "ParseSyntaxError"}
    THEN Illegal(remove_unexpected_character(kw, p.tok, p.pos), MSG_CHARACTER)
    ELSE Legal(kw)

\* p.finditer(keyword) for range_re = (\[.*?TO.*?\]): the [start, end) offsets
RECURSIVE RangeMatches(_, _)
RangeMatches(kw, from) ==
    LET start == FindFrom(kw, <<"[">>, from)
        to == IF start = -1 THEN -1 ELSE FindFrom(kw, <<"T", "O">>, start + 1)
        close == IF to = -1 THEN -1 ELSE FindFrom(kw, <<"]">>, to + 2)
    IN  IF close = -1 THEN <<>>
        ELSE <<(<<start, close + 1>>)>> \o RangeMatches(kw, close + 1)

\* re.search(single_range_re, text) on one match of range_re, with
\* single_range_re = \[(.*)TO(.*)\] : the two groups, stripped
SingleRange(text) ==
    LET to == RFindBefore(text, <<"T", "O">>, Len(text) - 2)
    IN  [start |-> Strip(Slice(text, 1, to)), end |-> Strip(Slice(text, to + 2, Len(text) - 1))]

\* IllegalRangeSyntaxInspector.resolve: the pieces appended to remain_keyword
\* by loop rounds i, i+1, ... (i counts from 1 here)
RECURSIVE ResolveRound(_, _, _)
ResolveRound(kw, match_groups, i) ==
    IF i > Len(match_groups) THEN <<>>
    ELSE LET before == IF i = 1 THEN Slice(kw, 0, match_groups[i][1])
                       ELSE Slice(kw, match_groups[i - 1][2], match_groups[i][1])
             m == SingleRange(Slice(kw, match_groups[i][1], match_groups[i][2]))
             start == IF m.start = <<>> THEN <<"*">> ELSE m.start
             end == IF m.end = <<>> THEN <<"*">> ELSE m.end
         IN  IF m.start # <<>> /\ m.end # <<>>
             \* continue: neither the range nor the text after the last range is appended
             THEN before \o ResolveRound(kw, match_groups, i + 1)
             ELSE before \o <<"[">> \o start \o <<" ", "T", "O", " ">> \o end \o <<"]">>
                         \o (IF i = Len(match_groups) THEN SliceFrom(kw, match_groups[i][2]) ELSE <<>>)
                         \o ResolveRound(kw, match_groups, i + 1)

IllegalRangeSyntaxInspector(kw) ==
    LET p == Parse(kw) IN
    IF p.error = "ParseSyntaxError" /\ p.tok = <<"T", "O">>
    THEN LET match_groups == RangeMatches(kw, 0) IN
         IF match_groups = <<>> THEN Legal(kw)
         ELSE Illegal(ResolveRound(kw, match_groups, 1), MSG_RANGE)
    ELSE Legal(kw)

\* the scan that always takes the top of the stack for the odd bracket
RECURSIVE BracketScanTopOnly(_, _, _)
BracketScanTopOnly(kw, index, s) ==
    IF index >= Len(kw) THEN
        IF s = <<>> THEN Legal(kw)
        ELSE Illegal(RemoveAt(kw, s[Len(s)].index, 1), MSG_BRACKET)
    ELSE LET symbol == kw[index + 1] IN
         IF symbol \in DOMAIN BRACKET_DICT
         THEN BracketScanTopOnly(kw, index + 1, Append(s, [symbol |-> symbol, index |-> index]))
         ELSE IF symbol \in {BRACKET_DICT[c] : c \in DOMAIN BRACKET_DICT} THEN
             IF s # <<>> /\ s[Len(s)].symbol \in DOMAIN BRACKET_DICT
                         /\ symbol = BRACKET_DICT[s[Len(s)].symbol]
             THEN BracketScanTopOnly(kw, index + 1, SubSeq(s, 1, Len(s) - 1))
             ELSE Illegal(RemoveAt(kw, index, 1), MSG_BRACKET)
         ELSE BracketScanTopOnly(kw, index + 1, s)

\* IllegalBracketInspector: the scan of the keyword from offset index on with
\* stack s of [symbol, index]
RECURSIVE BracketScan(_, _, _)
BracketScan(kw, index, s) ==
    IF index >= Len(kw) THEN
        IF s = <<>> THEN Legal(kw)
        ELSE Illegal(RemoveAt(kw, s[Len(s)].index, 1), MSG_BRACKET)
    ELSE LET symbol == kw[index + 1] IN
         IF symbol \in DOMAIN BRACKET_DICT
         THEN BracketScan(kw, index + 1, Append(s, [symbol |-> symbol, index |-> index]))
         ELSE IF symbol \in {BRACKET_DICT[c] : c \in DOMAIN BRACKET_DICT} THEN
             IF s # <<>> /\ s[Len(s)].symbol \in DOMAIN BRACKET_DICT
                         /\ symbol = BRACKET_DICT[s[Len(s)].symbol]
             THEN BracketScan(kw, index + 1, SubSeq(s, 1, Len(s) - 1))
             ELSE LET s2 == Append(s, [symbol |-> symbol, index |-> index]) IN
                  IF s2[1].symbol \in DOMAIN BRACKET_DICT
                     /\ s2[Len(s2)].symbol = BRACKET_DICT[s2[1].symbol]
                  THEN Illegal(RemoveAt(kw, s2[Len(s2) - 1].index, 1), MSG_BRACKET)
                  ELSE Illegal(RemoveAt(kw, s2[Len(s2)].index, 1), MSG_BRACKET)
         ELSE BracketScan(kw, index + 1, s)

IllegalBracketInspector(kw) ==
    IF Parse(kw).error = "UnexpectedEnd" THEN BracketScan(kw, 0, <<>>) ELSE Legal(kw)

IllegalColonInspector(kw) ==
    IF Parse(kw).error = "UnexpectedEnd" /\ Find(kw, <<":">>) = Len(kw) - 1
    THEN Illegal(SubSeq(kw, 1, Len(kw) - 1), MSG_COLON)
    ELSE Legal(kw)

\* str(UnknownOperationResolver()(tree)): every UnknownOperation printed as
\* an AND of its operands, everything else as it was written
RECURSIVE ResolvedText(_, _)
RECURSIVE ResolvedKids(_, _, _)
ResolvedText(kw, node) ==
    IF node.kids = <<>> THEN SourceText(kw, node)
    ELSE Slice(kw, node.pos, node.kids[1].pos) \o ResolvedKids(kw, node, 1)

ResolvedKids(kw, node, k) ==
    ResolvedText(kw, node.kids[k])
    \o (IF k = Len(node.kids) THEN Slice(kw, NodeEnd(node.kids[k]), NodeEnd(node))
        ELSE (IF node.type = "UnknownOperation" THEN <<" ", "A", "N", "D", " ">>
              ELSE Slice(kw, NodeEnd(node.kids[k]), node.kids[k + 1].pos))
             \o ResolvedKids(kw, node, k + 1))

\* the try block only calls parser.parse, which raises the three parse
\* errors and never UnknownLuceneOperatorException
UnknownOperatorInspector(kw) ==
    LET p == Parse(kw) IN
    IF p.error = "UnknownLuceneOperatorException"
    THEN Illegal(ResolvedText(kw, Parse(kw).tree), MSG_UNKNOWN_OPERATOR)
    ELSE Legal(kw)

\* set_illegal() in a finally clause instead of the except clause
DefaultInspectorFinally(kw) == Illegal(kw, MSG_DEFAULT)

\* the field extractor is not run
DefaultInspectorParseOnly(kw) ==
    IF Parse(kw).error # "none" THEN Illegal(kw, MSG_DEFAULT) ELSE Legal(kw)

DefaultInspector(kw) ==
    IF Parse(kw).error # "none" THEN Illegal(kw, MSG_DEFAULT)
    ELSE IF Parsing(kw).raised # "none" THEN Illegal(kw, MSG_DEFAULT)
    ELSE Legal(kw)

(***************************************************************************)
(* LuceneSyntaxResolver: state of one resolve() call, and of the call that *)
(* follows it on the keyword it returned                                   *)
(***************************************************************************)
VARIABLES
    query,          \* the keyword the first resolver was constructed with
    keyword,        \* self.keyword
    messages,       \* self.messages (its elements; resolve() returns set(self.messages))
    iter_messages,  \* the local messages of the running inspect()
    idx,            \* number of the registered inspector that runs next
    times,          \* rounds of the loop in resolve() that have ended
    is_resolved,    \* the local is_resolved of resolve()
    pc,             \* "inspect", "inspected", "exit", "returned", "raised"
    inspected,      \* the last inspector that ran: its class, keyword before and result
    result,         \* the dict resolve() returned
    run,            \* 1: resolve() on the query, 2: resolve() on the first result's keyword
    first,          \* the dict the first resolve() returned
    parsed,         \* LuceneParser(query).parsing(): what _get_method gave and what was returned
    tree,           \* query_tree of LuceneTransformer.transform
    params,         \* the params of transform: a list of [pos, value]
    applied,        \* how many params the loop of transform has visited the tree with
    output,         \* the string transform returned
    report,         \* a Report: its info, warning and error
    supplied,       \* an error message was handed to the report, at construction or later
    calls           \* add_* calls made on the report

resolver_vars == <<keyword, messages, iter_messages, idx, times, is_resolved,
                   inspected, result, run, first>>
parser_vars == <<parsed>>
transformer_vars == <<tree, params, applied, output>>

report_vars == <<report, supplied, calls>>

vars == <<query, pc, resolver_vars, parser_vars, transformer_vars, report_vars>>

\* bounds of the queries
MaxPieces == 3
MaxLead == 11

Pieces ==
    { <<"a">>, <<"b">>, <<" ">>, <<"a", ":">>, <<"(">>, <<")">>,
      <<" ", "A", "N", "D", " ">>, <<LDQUO>>, <<RDQUO>> }

RangePieces ==
    { <<"[", " ", "T", "O", " ", "1", "]">>, <<"[", "1", " ", "T", "O", " ", "2", "]">>,
      <<"[", "T", "O", "]">>, <<"a", ":">>, <<" ", "A", "N", "D", " ">>, <<" ">> }

RECURSIVE Flatten(_)
Flatten(ps) == IF ps = <<>> THEN <<>> ELSE Head(ps) \o Flatten(Tail(ps))

Repeat(c, n) == [k \in 1..n |-> c]

PieceQueries(pieces) == { Flatten(ps) : ps \in UNION { [1..n -> pieces] : n \in 0..MaxPieces } }

Queries == PieceQueries(Pieces) \cup { Repeat("(", n) : n \in 0..MaxLead }

RangeQueries == PieceQueries(RangePieces)

BracketPieces ==
    { <<"(">>, <<")">>, <<"[">>, <<"a">>, <<" ">>,
      <<DQUOTE, "[", ")", DQUOTE>>, <<DQUOTE, "(", "]", DQUOTE>> }

BracketQueries == PieceQueries(BracketPieces)

NoResult == [is_legal |-> TRUE, is_resolved |-> FALSE, message |-> {}, keyword |-> <<>>]
NotInspected == [class |-> "none", before |-> <<>>, after |-> Legal(<<>>)]

InitiallyResolvedTrue == TRUE

\* is_resolved as resolve() sets it before its loop
InitiallyResolved == FALSE

\* LuceneSyntaxResolver(keyword) followed by the entry of resolve()
NewResolver(kw) ==
    /\ keyword = kw
    /\ messages = {}
    /\ iter_messages = <<>>
    /\ idx = 1
    /\ times = 0
    /\ is_resolved = InitiallyResolved
    /\ pc = "inspect"

NotParsed == [raised |-> "none", isList |-> FALSE, fields |-> <<>>]

ParserIdle == parsed = NotParsed

TransformerIdle ==
    /\ tree = NoNode
    /\ params = <<>>
    /\ applied = 0
    /\ output = <<>>

\* Python values: None, and a list of messages
PyNone == [none |-> TRUE, items |-> <<>>]
PyList(items) == [none |-> FALSE, items |-> items]

\* bool(value): None and the empty list are false
Truthy(value) == ~value.none /\ value.items # <<>>

\* Report(name, info, warning, error)
NewReport(name, info, warning, error) ==
    [name |-> name,
     info |-> IF Truthy(info) THEN info ELSE PyList(<<>>),
     warning |-> IF Truthy(warning) THEN warning ELSE PyList(<<>>),
     error |-> IF Truthy(warning) THEN error ELSE PyList(<<>>)]

ReportIdle ==
    /\ report = NewReport("", PyNone, PyNone, PyNone)
    /\ supplied = FALSE
    /\ calls = 0

InitWith(queries) ==
    /\ query \in queries
    /\ NewResolver(query)
    /\ inspected = NotInspected
    /\ result = NoResult
    /\ run = 1
    /\ first = NoResult
    /\ ParserIdle
    /\ ReportIdle
    /\ TransformerIdle

Init == InitWith(Queries)

InitRange == InitWith(RangeQueries)

InitBracket == InitWith(BracketQueries)

REGISTERED_INSPECTORS ==
    << "ChinesePunctuationInspector", "IllegalRangeSyntaxInspector", "IllegalCharacterInspector",
       "IllegalColonInspector", "IllegalBracketInspector", "UnknownOperatorInspector",
       "DefaultInspector" >>

\* one round of the loop in LuceneSyntaxResolver.inspect for inspector class
\* cls, whose inspect() on the current keyword gives r
InspectorRound(cls, r) ==
    /\ pc = "inspect"
    /\ REGISTERED_INSPECTORS[idx] = cls
    /\ inspected' = [class |-> cls, before |-> keyword, after |-> r]
    /\ IF r.raised # "none"
       THEN /\ pc' = "raised"
            /\ UNCHANGED <<keyword, iter_messages, idx>>
       ELSE /\ keyword' = r.keyword
            /\ iter_messages' = IF r.is_legal THEN iter_messages
                                ELSE Append(iter_messages, r.message)
            /\ IF idx = Len(REGISTERED_INSPECTORS)
               THEN pc' = "inspected" /\ idx' = idx
               ELSE pc' = "inspect" /\ idx' = idx + 1
    /\ UNCHANGED <<query, messages, times, is_resolved, result, run, first>>
    /\ UNCHANGED <<parser_vars, transformer_vars, report_vars>>

ChinesePunctuation == InspectorRound("ChinesePunctuationInspector", ChinesePunctuationInspector(keyword))
IllegalRangeSyntax == InspectorRound("IllegalRangeSyntaxInspector", IllegalRangeSyntaxInspector(keyword))
IllegalCharacter == InspectorRound("IllegalCharacterInspector", IllegalCharacterInspector(keyword))
IllegalColon == InspectorRound("IllegalColonInspector", IllegalColonInspector(keyword))
IllegalBracket == InspectorRound("IllegalBracketInspector", IllegalBracketInspector(keyword))
UnknownOperator == InspectorRound("UnknownOperatorInspector", UnknownOperatorInspector(keyword))
Default == InspectorRound("DefaultInspector", DefaultInspector(keyword))

\* the end of inspect() and the round of the loop in resolve() that called it
InspectReturn ==
    /\ pc = "inspected"
    /\ IF iter_messages = <<>>
       THEN /\ is_resolved' = TRUE
            /\ pc' = "exit"
            /\ UNCHANGED <<messages, times, idx, iter_messages>>
       ELSE /\ messages' = messages \cup {iter_messages[k] : k \in 1..Len(iter_messages)}
            /\ times' = times + 1
            /\ iter_messages' = <<>>
            /\ idx' = 1
            /\ pc' = IF times + 1 = MAX_RESOLVE_TIMES THEN "exit" ELSE "inspect"
            /\ UNCHANGED is_resolved
    /\ UNCHANGED <<query, keyword, inspected, result, run, first>>
    /\ UNCHANGED <<parser_vars, transformer_vars, report_vars>>

\* the rest of resolve() after its loop
ResolveReturn ==
    /\ pc = "exit"
    /\ LET final == IF is_resolved THEN messages \ {MSG_DEFAULT} ELSE messages
       IN  /\ messages' = final
           /\ result' = [is_legal |-> final = {}, is_resolved |-> is_resolved,
                         message |-> final, keyword |-> keyword]
    /\ pc' = "returned"
    /\ UNCHANGED <<query, keyword, iter_messages, idx, times, is_resolved, inspected, run, first>>
    /\ UNCHANGED <<parser_vars, transformer_vars, report_vars>>

\* the caller repairs the keyword it got back
ResolveAgain ==
    /\ pc = "returned"
    /\ run = 1
    /\ first' = result
    /\ run' = 2
    /\ keyword' = result.keyword
    /\ messages' = {}
    /\ iter_messages' = <<>>
    /\ idx' = 1
    /\ times' = 0
    /\ is_resolved' = InitiallyResolved
    /\ pc' = "inspect"
    /\ UNCHANGED <<query, inspected, result>>
    /\ UNCHANGED <<parser_vars, transformer_vars, report_vars>>

Next ==
    \/ ChinesePunctuation
    \/ IllegalRangeSyntax
    \/ IllegalCharacter
    \/ IllegalColon
    \/ IllegalBracket
    \/ UnknownOperator
    \/ Default
    \/ InspectReturn
    \/ ResolveReturn
    \/ ResolveAgain

Spec == Init /\ [][Next]_vars

\* the same resolver on queries built from range expressions
SpecRange == InitRange /\ [][Next]_vars

SpecBracket == InitBracket /\ [][Next]_vars

(***************************************************************************)
(* LuceneParser(query).parsing() on queries built from clauses             *)
(***************************************************************************)
MaxClauses == 3

Clauses ==
    { <<"a", ":", "x">>, <<"b", ":", "x">>, <<"x">>, <<DQUOTE, "p", DQUOTE>>,
      <<"N", "O", "T", " ", "x">>, <<"-", "a", ":", "x">>, <<"(", "x", ")">>,
      <<"a", ":", "(", "x", " ", "y", ")">>, <<"[", "1", " ", "T", "O", " ", "2", "]">>,
      <<"*", ":", ">", "=", "1">> }

Connectors == { <<" ", "A", "N", "D", " ">>, <<" ", "O", "R", " ">>, <<" ">> }

RECURSIVE Join(_, _)
Join(cs, conn) ==
    IF cs = <<>> THEN <<>>
    ELSE IF Len(cs) = 1 THEN cs[1]
    ELSE cs[1] \o conn \o Join(Tail(cs), conn)

ClauseQueries(clauses, n) ==
    { Join(cs, conn) : cs \in UNION { [1..m -> clauses] : m \in 0..n }, conn \in Connectors }

InitParsing ==
    /\ query \in ClauseQueries(Clauses, MaxClauses)
    /\ pc = "parsing"
    /\ keyword = query
    /\ messages = {}
    /\ iter_messages = <<>>
    /\ idx = 1
    /\ times = 0
    /\ is_resolved = FALSE
    /\ inspected = NotInspected
    /\ result = NoResult
    /\ run = 1
    /\ first = NoResult
    /\ ParserIdle
    /\ ReportIdle
    /\ TransformerIdle

\* LuceneParser(keyword=query).parsing()
ParsingCall ==
    /\ pc = "parsing"
    /\ parsed' = Parsing(query)
    /\ pc' = IF Parsing(query).raised = "none" THEN "parsed" ELSE "raised"
    /\ UNCHANGED <<query, resolver_vars, transformer_vars, report_vars>>

NextParsing == ParsingCall

SpecParsing == InitParsing /\ [][NextParsing]_vars

\* how many of the first k fields carry the name of field k
Rank(fields, k) == Cardinality({j \in 1..k : fields[j].name = fields[k].name})

\* the fields _get_method extracts from the tree of the keyword, before the
\* renaming
Extracted(kw) == GetMethod(kw, Parse(kw).tree).fields

\* C4: the fields parsing() returns are the extracted ones with every name
\* that occurs more than once numbered name(1), name(2), ... in order and
\* every other name kept, and no two of them share a name.
C4_FieldNamesUnique ==
    pc = "parsed" =>
        LET raw == Extracted(query) IN
        /\ Len(parsed.fields) = Len(raw)
        /\ \A k \in 1..Len(raw) :
              /\ parsed.fields[k].name =
                    IF CounterCount(raw, raw[k].name) > 1
                    THEN raw[k].name \o <<"(">> \o Decimal(Rank(raw, k)) \o <<")">>
                    ELSE raw[k].name
              /\ parsed.fields[k] = [raw[k] EXCEPT !.name = parsed.fields[k].name]
        /\ \A j, k \in 1..Len(parsed.fields) :
              parsed.fields[j].name = parsed.fields[k].name => j = k

C4_Witness ==
    /\ pc = "parsed"
    /\ \E j, k \in 1..Len(parsed.fields) :
          j # k /\ Extracted(query)[j].name = Extracted(query)[k].name
    /\ \E k \in 1..Len(parsed.fields) :
          CounterCount(Extracted(query), Extracted(query)[k].name) = 1

(***************************************************************************)
(* LuceneTransformer                                                       *)
(***************************************************************************)
\* str(node) of a tree that was rewritten, and str(auto_head_tail(tree)):
\* the node printed from its parts, with one blank around a binary operator,
\* after NOT and after the colon of a field
RECURSIVE Str(_)
RECURSIVE StrJoin(_, _)
Str(node) ==
    CASE node.type \in {"Word", "Phrase"} -> node.value
      [] node.type = "SearchField" -> node.name \o <<":", " ">> \o Str(node.kids[1])
      [] node.type \in {"Group", "FieldGroup"} -> <<"(">> \o Str(node.kids[1]) \o <<")">>
      [] node.type = "Range" ->
            <<node.name[1]>> \o Str(node.kids[1]) \o <<" ", "T", "O", " ">>
                \o Str(node.kids[2]) \o <<node.name[2]>>
      [] node.type = "Not" -> <<"N", "O", "T", " ">> \o Str(node.kids[1])
      [] node.type = "Plus" -> <<"+">> \o Str(node.kids[1])
      [] node.type = "Prohibit" -> <<"-">> \o Str(node.kids[1])
      [] node.type = "AndOperation" -> StrJoin(node.kids, <<" ", "A", "N", "D", " ">>)
      [] node.type = "OrOperation" -> StrJoin(node.kids, <<" ", "O", "R", " ">>)
      [] OTHER -> StrJoin(node.kids, <<" ">>)

StrJoin(kids, op) ==
    IF Len(kids) = 1 THEN Str(kids[1])
    ELSE Str(kids[1]) \o op \o StrJoin(Tail(kids), op)

\* what a visit hands back: the new node, or the exception raised
Visited(node) == [raised |-> "none", node |-> node]
VisitRaised(e) == [raised |-> e, node |-> NoNode]

\* operator in WORD_RANGE_OPERATORS: a substring test on the pattern >=|<=|>|<
InWordRangeOperators(operator) ==
    operator \in { <<>>, <<">">>, <<"<">>, <<"=">>, <<"|">>, <<">", "=">>, <<"<", "=">>,
                   <<"=", "|">>, <<"|", "<">>, <<"|", ">">>, <<">", "|">> }

\* f"{name}: {operator}{value}" or f"{name}: {value}", by the operator that
\* parsing() found for the field
ReplacementText(fields, name, value) ==
    IF fields.raised # "none" THEN VisitRaised(fields.raised)
    ELSE IF InWordRangeOperators(fields.fields[1].operator)
         THEN Visited(name \o <<":", " ">> \o fields.fields[1].operator \o value)
    ELSE Visited(name \o <<":", " ">> \o value)

\* the text visit_search_field parses in place of the field it matched
Replacement(node, value) ==
    IF node.kids[1].type = "Word"
    THEN ReplacementText(Parsing(Str(node)), node.name, value)
    ELSE Visited(node.name \o <<":", " ">> \o value)

RECURSIVE VisitNode(_, _)
RECURSIVE CloneChildren(_, _, _)

\* the clone of the node with the new children, or the exception a child raised
WithChildren(node, kids) ==
    IF kids.raised # "none" THEN VisitRaised(kids.raised)
    ELSE Visited([node EXCEPT !.kids = kids.node])

\* generic_visit: the node cloned, with its children visited
GenericVisit(node, context) == WithChildren(node, CloneChildren(node.kids, context, 1))

\* the new children v, rest, or the exception that one of them is
NewChildren(v, rest) ==
    IF v.raised # "none" THEN v
    ELSE IF rest.raised # "none" THEN rest
    ELSE Visited(<<v.node>> \o rest.node)

\* the visits of children k, k+1, ... (node holds the list of new children)
CloneChildren(kids, context, k) ==
    IF k > Len(kids) THEN Visited(<<>>)
    ELSE NewChildren(VisitNode(kids[k], context), CloneChildren(kids, context, k + 1))

\* generic_visit of what parser.parse made of the replacement text
VisitParsed(p, context) ==
    IF p.error # "none" THEN VisitRaised(p.error) ELSE GenericVisit(p.tree, context)

\* node = parser.parse(text), then generic_visit of it
VisitReplacement(text, context) ==
    IF text.raised # "none" THEN text ELSE VisitParsed(Parse(text.node), context)

visit_search_field(node, context) ==
    IF node.pos = context.pos
    THEN VisitReplacement(Replacement(node, context.value), context)
    ELSE GenericVisit(node, context)

visit_word(node, context) ==
    IF node.pos = context.pos
    THEN GenericVisit([node EXCEPT !.value = context.value], context)
    ELSE GenericVisit(node, context)

\* TreeTransformer.visit: dispatch on the node's class
VisitNode(node, context) ==
    CASE node.type = "SearchField" -> visit_search_field(node, context)
      [] node.type = "Word" -> visit_word(node, context)
      [] OTHER -> GenericVisit(node, context)

MaxParams == 2
MaxTransformClauses == 2

TransformClauses ==
    { <<"a", ":", "x">>, <<"b", "c", ":", ">", "=", "1">>, <<"x">>, <<"b", ":", "(", "x", ")">> }

Values == { <<"q">>, <<"r">> }

MaxPos == 9

\* the offsets a directive can carry
Positions == 0..MaxPos

Directives == [pos : Positions, value : Values]

InitTransform ==
    /\ query \in ClauseQueries(TransformClauses, MaxTransformClauses)
    /\ params \in UNION { [1..n -> Directives] : n \in 0..MaxParams }
    /\ pc = "transform"
    /\ tree = NoNode
    /\ applied = 0
    /\ output = <<>>
    /\ keyword = query
    /\ messages = {}
    /\ iter_messages = <<>>
    /\ idx = 1
    /\ times = 0
    /\ is_resolved = FALSE
    /\ inspected = NotInspected
    /\ result = NoResult
    /\ run = 1
    /\ first = NoResult
    /\ ParserIdle
    /\ ReportIdle

\* query_tree is bound to the parsed tree p, or the parser's exception leaves
\* transform
Parsed(p) ==
    /\ pc' = IF p.error # "none" THEN "raised" ELSE "visit"
    /\ tree' = IF p.error # "none" THEN tree ELSE p.tree

\* query_tree is bound to the visited tree v, or the exception leaves transform
VisitedTree(v) ==
    /\ pc' = IF v.raised # "none" THEN "raised" ELSE "visit"
    /\ tree' = IF v.raised # "none" THEN tree ELSE v.node
    /\ applied' = IF v.raised # "none" THEN applied ELSE applied + 1

\* query_tree = parser.parse(keyword, lexer=lexer)
TransformParse ==
    /\ pc = "transform"
    /\ Parsed(Parse(query))
    /\ UNCHANGED <<query, resolver_vars, parser_vars, report_vars, params, applied, output>>

\* one round of the loop: query_tree = self.visit(query_tree, param)
TransformVisit ==
    /\ pc = "visit"
    /\ applied < Len(params)
    /\ VisitedTree(VisitNode(tree, params[applied + 1]))
    /\ UNCHANGED <<query, resolver_vars, parser_vars, report_vars, params, output>>

\* return str(auto_head_tail(query_tree))
TransformReturn ==
    /\ pc = "visit"
    /\ applied = Len(params)
    /\ output' = Str(tree)
    /\ pc' = "transformed"
    /\ UNCHANGED <<query, resolver_vars, parser_vars, report_vars, tree, params, applied>>

NextTransform == TransformParse \/ TransformVisit \/ TransformReturn

SpecTransform == InitTransform /\ [][NextTransform]_vars

\* the fields and words of a parsed query that a directive can name
RECURSIVE Addressable(_)
Addressable(node) ==
    (IF node.type \in {"SearchField", "Word"} THEN {node} ELSE {})
    \cup UNION { Addressable(node.kids[k]) : k \in 1..Len(node.kids) }

\* the params name, each once, fields and words of the query, and no word
\* inside a field that is named too
AimedAtNodes(root, ps) ==
    /\ \A k \in 1..Len(ps) : \E n \in Addressable(root) : n.pos = ps[k].pos
    /\ \A j, k \in 1..Len(ps) : ps[j].pos = ps[k].pos => j = k
    /\ \A n \in Addressable(root) : \A m \in Addressable(n) :
          (m # n /\ n.type = "SearchField" /\ \E k \in 1..Len(ps) : ps[k].pos = n.pos)
              => ~\E k \in 1..Len(ps) : ps[k].pos = m.pos

\* the tree of the query with the node at each named position, and no other
\* node, replaced as visit_search_field and visit_word replace it
RECURSIVE Rewritten(_, _)
Rewritten(node, ps) ==
    IF \E k \in 1..Len(ps) : ps[k].pos = node.pos /\ node.type \in {"SearchField", "Word"}
    THEN LET d == ps[CHOOSE k \in 1..Len(ps) : ps[k].pos = node.pos] IN
         IF node.type = "Word" THEN [node EXCEPT !.value = d.value]
         ELSE Parse(Replacement(node, d.value).node).tree
    ELSE [node EXCEPT !.kids = [k \in 1..Len(node.kids) |-> Rewritten(node.kids[k], ps)]]

\* C10: when the params name distinct nodes of the query, transform returns
\* the query with exactly those nodes replaced and every other node as it was.
C10_OneNodePerDirective ==
    (pc \in {"transformed", "raised"} /\ Parse(query).error = "none"
        /\ AimedAtNodes(Parse(query).tree, params))
        => (pc = "transformed" /\ output = Str(Rewritten(Parse(query).tree, params)))

(***************************************************************************)
(* Properties of the repair pipeline                                       *)
(***************************************************************************)
Returned == pc = "returned"
Ended == pc \in {"returned", "raised"}

\* parser and field extractor both accept kw
Extractable(kw) == Parsing(kw).raised = "none"

HasChinesePair(kw) == ChineseMatches(kw, 0) # <<>>

\* C1: whenever resolve() returns is_resolved = true, the keyword it returns
\* is accepted by the parser and by the field extractor.
C1_ResolvedKeywordParses ==
    (Returned /\ result.is_resolved) => Extractable(result.keyword)

C1_Witness ==
    Returned /\ run = 1 /\ result.is_resolved /\ result.keyword # query

\* C2 as stated: every query the parser accepts comes back unchanged, legal
\* and without message.
C2_ParsedQueryUntouched ==
    (Ended /\ run = 1 /\ Parse(query).error = "none")
        => (Returned /\ result.keyword = query /\ result.is_legal /\ result.message = {})

\* C2 as amended: every query that the parser and the field extractor accept
\* and that holds no pair of Chinese quotes passes every inspector unchanged
\* and unflagged, and comes back unchanged, legal and without message.
C2_CleanQueryUntouched ==
    (run = 1 /\ Extractable(query) /\ ~HasChinesePair(query))
        => /\ pc # "raised"
           /\ keyword = query
           /\ iter_messages = <<>>
           /\ Returned => (result.keyword = query /\ result.is_legal /\ result.message = {}
                            /\ result.is_resolved)

C2_Witness ==
    Returned /\ run = 1 /\ Extractable(query) /\ ~HasChinesePair(query) /\ Len(query) >= 7

\* C3 as stated: resolve() on the keyword a first resolve() returned gives
\* that keyword back, whether or not the first run reached a clean round.
C3_Idempotent ==
    (Returned /\ run = 2) => result.keyword = first.keyword

\* C3 as amended: when the first resolve() returned is_resolved = true,
\* resolve() on the keyword it returned ends without exception and returns
\* that keyword again, resolved and legal.
C3_IdempotentWhenResolved ==
    (run = 2 /\ first.is_resolved)
        => /\ pc # "raised"
           /\ keyword = first.keyword
           /\ Returned => (result.keyword = first.keyword /\ result.is_resolved /\ result.is_legal)

C3_Witness ==
    Returned /\ run = 2 /\ first.is_resolved /\ first.keyword # query

\* the query is two words with blanks between them and no operator
TwoWords(kw) ==
    LET p == Parse(kw) IN
    /\ p.error = "none"
    /\ p.tree.type = "UnknownOperation"
    /\ Len(p.tree.kids) = 2
    /\ \A k \in 1..2 : p.tree.kids[k].type = "Word"
    /\ p.tree.size = Len(kw)

\* C5: a query of two adjacent words comes back as the AND of the two, with
\* the unknown-operator message, resolved.
C5_UnknownOperatorRewritten ==
    (Ended /\ run = 1 /\ TwoWords(query) /\ ~HasChinesePair(query))
        => /\ Returned
           /\ result.keyword = Parse(query).tree.kids[1].value \o <<" ", "A", "N", "D", " ">>
                                    \o Parse(query).tree.kids[2].value
           /\ MSG_UNKNOWN_OPERATOR \in result.message
           /\ result.is_resolved

\* the keyword with the quotes of every Chinese pair made straight
RECURSIVE StraightQuotes(_, _, _)
StraightQuotes(kw, match_groups, k) ==
    IF k > Len(match_groups) THEN kw
    ELSE StraightQuotes([kw EXCEPT ![match_groups[k][1] + 1] = DQUOTE,
                                   ![match_groups[k][2]] = DQUOTE],
                        match_groups, k + 1)

\* C6: a query with Chinese quote pairs, well formed once the quotes are
\* straight, comes back with exactly those quotes replaced, with the
\* Chinese-punctuation message, resolved.
C6_ChineseQuotesReplaced ==
    (Ended /\ run = 1 /\ HasChinesePair(query)
           /\ Extractable(StraightQuotes(query, ChineseMatches(query, 0), 1)))
        => /\ Returned
           /\ result.keyword = StraightQuotes(query, ChineseMatches(query, 0), 1)
           /\ MSG_CHINESE \in result.message
           /\ result.is_resolved

\* C7: whenever IllegalColonInspector runs on a keyword that ends in a colon
\* and that the parser rejects with the unexpected-end error, it removes that
\* last colon and reports the stray-colon message.
C7_TrailingColonRemoved ==
    (/\ inspected.class = "IllegalColonInspector"
     /\ inspected.before # <<>>
     /\ inspected.before[Len(inspected.before)] = ":"
     /\ Parse(inspected.before).error = "UnexpectedEnd")
        => /\ inspected.after.keyword = SubSeq(inspected.before, 1, Len(inspected.before) - 1)
           /\ ~inspected.after.is_legal
           /\ inspected.after.message = MSG_COLON

\* C8: the empty query comes back legal and still empty.
C8_EmptyQueryLegal ==
    (Returned /\ run = 1 /\ query = <<>>)
        => (result.is_legal /\ result.keyword = <<>>)

\* the keyword with every range that lacks an endpoint rewritten and every
\* other character kept: ranges from number k on, text from offset from on
RECURSIVE RangesSpliced(_, _, _, _)
RangesSpliced(kw, match_groups, k, from) ==
    IF k > Len(match_groups) THEN SliceFrom(kw, from)
    ELSE LET text == Slice(kw, match_groups[k][1], match_groups[k][2])
             m == SingleRange(text)
         IN  Slice(kw, from, match_groups[k][1])
             \o (IF m.start # <<>> /\ m.end # <<>> THEN text
                 ELSE <<"[">> \o (IF m.start = <<>> THEN <<"*">> ELSE m.start)
                      \o <<" ", "T", "O", " ">>
                      \o (IF m.end = <<>> THEN <<"*">> ELSE m.end) \o <<"]">>)
             \o RangesSpliced(kw, match_groups, k + 1, match_groups[k][2])

\* C9: whenever IllegalRangeSyntaxInspector reports, its keyword is the old
\* one with the empty endpoints of its ranges replaced by * and every complete
\* range and all text around the ranges kept.
C9_RangesSplicedBack ==
    (inspected.class = "IllegalRangeSyntaxInspector" /\ ~inspected.after.is_legal)
        => inspected.after.keyword
               = RangesSpliced(inspected.before, RangeMatches(inspected.before, 0), 1, 0)

(***************************************************************************)
(* LuceneParser(query).parsing() on queries of NOT, + and - clauses         *)
(***************************************************************************)
MaxUnaryClauses == 2

UnaryPrefixes == { <<"N", "O", "T", " ">>, <<"+">>, <<"-">> }

UnaryOperands ==
    { <<"x">>, <<DQUOTE, "p", DQUOTE>>, <<"a", ":", "x">>, <<"(", "x", ")">>,
      <<"(", "a", " ", "A", "N", "D", " ", "b", ")">> }

UnaryClauses == { prefix \o operand : prefix \in UnaryPrefixes, operand \in UnaryOperands }

InitUnary ==
    /\ query \in ClauseQueries(UnaryClauses, MaxUnaryClauses)
    /\ pc = "parsing"
    /\ keyword = query
    /\ messages = {}
    /\ iter_messages = <<>>
    /\ idx = 1
    /\ times = 0
    /\ is_resolved = FALSE
    /\ inspected = NotInspected
    /\ result = NoResult
    /\ run = 1
    /\ first = NoResult
    /\ ParserIdle
    /\ ReportIdle
    /\ TransformerIdle

SpecUnary == InitUnary /\ [][NextParsing]_vars

UnaryTypes == {"Not", "Plus", "Prohibit"}

\* the Not, Plus and Prohibit nodes of a tree
RECURSIVE UnaryNodes(_)
UnaryNodes(node) ==
    (IF node.type \in UnaryTypes THEN {node} ELSE {})
    \cup UNION { UnaryNodes(node.kids[k]) : k \in 1..Len(node.kids) }

OperatorOf(type) ==
    CASE type = "Not" -> NOT_OPERATOR
      [] type = "Plus" -> PLUS_OPERATOR
      [] OTHER -> PROHIBIT_OPERATOR

\* C12: for every Not, Plus or Prohibit node of the parsed query, whatever its
\* operand, the extractor gives exactly one field with operator NOT, + or -
\* and does not raise; a query that is one such node comes back from
\* parsing() as that one field.
C12_UnaryOperatorOneField ==
    (pc \in {"parsed", "raised"} /\ Parse(query).error = "none")
        => /\ \A n \in UnaryNodes(Parse(query).tree) :
                 /\ GetMethod(query, n).raised = "none"
                 /\ ~GetMethod(query, n).isList
                 /\ Len(GetMethod(query, n).fields) = 1
                 /\ GetMethod(query, n).fields[1].operator = OperatorOf(n.type)
           /\ Parse(query).tree.type \in UnaryTypes
                 => /\ pc = "parsed"
                    /\ Len(parsed.fields) = 1
                    /\ parsed.fields[1].operator = OperatorOf(Parse(query).tree.type)

(***************************************************************************)
(* Report of the collector checker                                         *)
(***************************************************************************)
MaxCalls == 3

\* what the caller can pass for a list argument holding message m
ListArgs(m) == { PyNone, PyList(<<>>), PyList(<<m>>) }

InitReport ==
    /\ \E info \in ListArgs("i"), warning \in ListArgs("w"), error \in ListArgs("e") :
          /\ report = NewReport("report", info, warning, error)
          /\ supplied = Truthy(error)
    /\ calls = 0
    /\ pc = "report"
    /\ query = <<>>
    /\ keyword = <<>>
    /\ messages = {}
    /\ iter_messages = <<>>
    /\ idx = 1
    /\ times = 0
    /\ is_resolved = FALSE
    /\ inspected = NotInspected
    /\ result = NoResult
    /\ run = 1
    /\ first = NoResult
    /\ ParserIdle
    /\ TransformerIdle

\* list.append(message) on a Python value
ListAppend(value, message) == PyList(Append(value.items, message))

\* list.extend(other) on a Python value
ListExtend(value, other) == PyList(value.items \o other.items)

has_problem(r) == r.error # PyList(<<>>)

add_info ==
    /\ pc = "report"
    /\ calls < MaxCalls
    /\ report' = [report EXCEPT !.info = ListAppend(report.info, "i")]
    /\ calls' = calls + 1
    /\ UNCHANGED <<query, pc, resolver_vars, parser_vars, transformer_vars, supplied>>

add_warning ==
    /\ pc = "report"
    /\ calls < MaxCalls
    /\ report' = [report EXCEPT !.warning = ListAppend(report.warning, "w")]
    /\ calls' = calls + 1
    /\ UNCHANGED <<query, pc, resolver_vars, parser_vars, transformer_vars, supplied>>

\* self.error.append(message): AttributeError when self.error is None
add_error ==
    /\ pc = "report"
    /\ calls < MaxCalls
    /\ report' = IF report.error.none THEN report
                 ELSE [report EXCEPT !.error = ListAppend(report.error, "e")]
    /\ pc' = IF report.error.none THEN "raised" ELSE "report"
    /\ supplied' = TRUE
    /\ calls' = calls + 1
    /\ UNCHANGED <<query, resolver_vars, parser_vars, transformer_vars>>

\* the three extends in turn; the third raises when either error is None
add_report ==
    /\ pc = "report"
    /\ calls < MaxCalls
    /\ \E info \in ListArgs("i"), warning \in ListArgs("w"), error \in ListArgs("e") :
          /\ report' =
                [report EXCEPT
                    !.info = ListExtend(report.info, NewReport("other", info, warning, error).info),
                    !.warning = ListExtend(report.warning,
                                           NewReport("other", info, warning, error).warning),
                    !.error = IF report.error.none
                                 \/ NewReport("other", info, warning, error).error.none
                              THEN report.error
                              ELSE ListExtend(report.error,
                                              NewReport("other", info, warning, error).error)]
          /\ pc' = IF report.error.none \/ NewReport("other", info, warning, error).error.none
                   THEN "raised" ELSE "report"
          /\ supplied' = (supplied \/ Truthy(error))
    /\ calls' = calls + 1
    /\ UNCHANGED <<query, resolver_vars, parser_vars, transformer_vars>>

NextReport == add_info \/ add_warning \/ add_error \/ add_report

SpecReport == InitReport /\ [][NextReport]_vars

\* C13: has_problem() is true exactly when an error message was supplied to
\* the report, at construction, by add_error or through a merged report.
C13_ProblemIffErrorSupplied ==
    pc = "report" => (has_problem(report) <=> supplied)

(***************************************************************************)
(* Properties of IllegalBracketInspector                                   *)
(***************************************************************************)
OpeningBrackets == DOMAIN BRACKET_DICT
ClosingBrackets == { BRACKET_DICT[c] : c \in DOMAIN BRACKET_DICT }

\* the offsets of the opening brackets still open after the first n
\* characters of kw, when every closing bracket among them closed the
\* bracket opened last
RECURSIVE Unmatched(_, _)
Unmatched(kw, n) ==
    IF n = 0 THEN <<>>
    ELSE LET open == Unmatched(kw, n - 1) IN
         IF kw[n] \in OpeningBrackets THEN Append(open, n - 1)
         ELSE IF kw[n] \in ClosingBrackets /\ open # <<>> THEN SubSeq(open, 1, Len(open) - 1)
         ELSE open

\* character n of kw is a closing bracket that does not close the bracket
\* opened last
Mismatched(kw, n) ==
    /\ kw[n] \in ClosingBrackets
    /\ LET open == Unmatched(kw, n - 1) IN
       open = <<>> \/ BRACKET_DICT[kw[open[Len(open)] + 1]] # kw[n]

Mismatches(kw) == { n \in 1..Len(kw) : Mismatched(kw, n) }

FirstMismatch(kw) == CHOOSE n \in Mismatches(kw) : \A m \in Mismatches(kw) : n <= m

\* the first mismatched closing bracket of kw closes the bracket at the bottom
\* of the stack
ClosesBottom(kw) ==
    /\ Mismatches(kw) # {}
    /\ LET open == Unmatched(kw, FirstMismatch(kw) - 1) IN
       open # <<>> /\ BRACKET_DICT[kw[open[1] + 1]] = kw[FirstMismatch(kw)]

\* the offset of the bracket the inspector is to remove, -1 when there is none
OddBracket(kw) ==
    IF Mismatches(kw) # {}
    THEN IF ClosesBottom(kw)
         THEN LET open == Unmatched(kw, FirstMismatch(kw) - 1) IN open[Len(open)]
         ELSE FirstMismatch(kw) - 1
    ELSE LET open == Unmatched(kw, Len(kw)) IN
         IF open = <<>> THEN -1 ELSE open[Len(open)]

\* C11: an invocation of IllegalBracketInspector that reports illegal removes
\* exactly one character, a bracket: the second-from-top stack entry when the
\* mismatched closing bracket matches the stack bottom (the stack then holds
\* at least two entries), otherwise the mismatched closing bracket, or after
\* the scan the top of the stack; a legal invocation leaves the keyword.
C11_OneBracketRemoved ==
    inspected.class = "IllegalBracketInspector" =>
        /\ inspected.after.raised = "none"
        /\ IF inspected.after.is_legal
           THEN inspected.after.keyword = inspected.before
           ELSE LET kw == inspected.before
                    at == OddBracket(inspected.before)
                IN  /\ at >= 0
                    /\ kw[at + 1] \in OpeningBrackets \cup ClosingBrackets
                    /\ Len(inspected.after.keyword) = Len(kw) - 1
                    /\ inspected.after.keyword
                          = SubSeq(kw, 1, at) \o SubSeq(kw, at + 2, Len(kw))
                    /\ ClosesBottom(kw)
                          => Len(Unmatched(kw, FirstMismatch(kw) - 1)) >= 2

\* the inspector met a closing bracket that matches the stack bottom and took
\* out the entry below it
C11_Witness ==
    /\ inspected.class = "IllegalBracketInspector"
    /\ ~inspected.after.is_legal
    /\ ClosesBottom(inspected.before)
====
